---- MODULE Spec2Model ----
(***************************************************************************)
(* A model of the rendering core: the first person Camera                  *)
(* (src/src/renderer/camera.rs), the Renderer (src/src/renderer/mod.rs),   *)
(* the pipeline registry (src/src/renderer/pipelines.rs) and the frame     *)
(* driver App / AppHandler (src/src/application.rs).                       *)
(*                                                                         *)
(* f32 values are fixed-point integers: 1.0 is Unit, angles are in         *)
(* 1/Unit radians.  An aspect ratio, the result of an f32 division of two  *)
(* small integers, is the reduced fraction <<n, d>>; <<1, 0>> is +inf and  *)
(* <<0, 0>> is NaN.                                                        *)
(***************************************************************************)
EXTENDS Integers, Sequences, FiniteSets, TLC

VARIABLES
    platform,   \* "native" or "web": cfg(target_arch = "wasm32")
    proxy,      \* AppHandler.proxy is Some (web only)
    pending,    \* number of spawned App::new futures not yet delivered
    app,        \* AppHandler.app: "None" or "Some"
    window,     \* App.window: [inner_size]
    renderer,   \* App.renderer
    camera,     \* App.camera
    input,      \* App.input
    timer,      \* App.timer
    exited,     \* event_loop.exit() was called
    panicked,   \* a panic (unwrap on Err / None) ended the process
    calls,      \* the external calls made by the last handler, in order
    hist,       \* the last operation, its inputs and the state before it
    steps       \* number of operations handled so far

vars == <<platform, proxy, pending, app, window, renderer, camera, input,
          timer, exited, panicked, calls, hist, steps>>

----------------------------------------------------------------------------
(* Bounds of the exploration *)

MaxEvents == 5      \* events delivered to the AppHandler
MaxCamOps == 3      \* operations applied to a Camera on its own
MaxDim == 2         \* largest width / height given to Renderer::resize
MaxTex == 2         \* number of distinct UI texture ids

----------------------------------------------------------------------------
(* f32 arithmetic in fixed point *)

Unit == 10000

\* F applied to the value of v, with v evaluated once
With(v, F(_)) == CHOOSE y \in {F(x) : x \in {v}} : TRUE

\* division rounding toward zero, so that (-a)/b = -(a/b) as for floats
TDiv(a, b) == IF a >= 0 THEN a \div b ELSE -((-a) \div b)

Mul(a, b) == TDiv(a * b, Unit)

RECURSIVE IsqrtBS(_, _, _)
IsqrtBS(n, lo, hi) ==
    IF lo >= hi THEN lo
    ELSE LET mid == (lo + hi + 1) \div 2
         IN  IF mid * mid <= n THEN IsqrtBS(n, mid, hi)
                               ELSE IsqrtBS(n, lo, mid - 1)

Isqrt(n) == IsqrtBS(n, 0, 46340)

FRAC_PI_2 == 15708

PI == 2 * FRAC_PI_2

\* an angle r of [-pi, pi] folded into [-pi/2, pi/2], its sine unchanged
FoldAngle(r) ==
    IF r > FRAC_PI_2 THEN PI - r
    ELSE IF r < -FRAC_PI_2 THEN -PI - r ELSE r

\* one step of the Taylor series of the sine in Horner form
SinStep(x2, d, inner) == Unit - TDiv(Mul(x2, inner), d)

\* x - x^3/3! + x^5/5! - x^7/7! + x^9/9!, x2 being x * x
SinSeries(x, x2) ==
    Mul(x, SinStep(x2, 6, SinStep(x2, 20, SinStep(x2, 42,
                                                  SinStep(x2, 72, Unit)))))

\* f32::sin: reduction to [-pi/2, pi/2], then the Taylor series up to x^9
Sin(a) ==
    With(FoldAngle(((a + PI) % (2 * PI)) - PI),
         LAMBDA x : SinSeries(x, Mul(x, x)))

\* f32::cos
Cos(a) == Sin(a + FRAC_PI_2)

\* f32::clamp
Clamp(x, lo, hi) == IF x < lo THEN lo ELSE IF x > hi THEN hi ELSE x

RECURSIVE GCD(_, _)
GCD(a, b) == IF b = 0 THEN a ELSE GCD(b, a % b)

\* `a as f32 / b as f32` for u32 a, b
F32Div(a, b) ==
    IF a = 0 /\ b = 0 THEN <<0, 0>>
    ELSE <<a \div GCD(a, b), b \div GCD(a, b)>>

F32Zero == <<0, 1>>

----------------------------------------------------------------------------
(* glam::Vec3 *)

Vec3(x, y, z) == <<x, y, z>>

VZero == Vec3(0, 0, 0)

VY == Vec3(0, Unit, 0)

VAdd(a, b) == Vec3(a[1] + b[1], a[2] + b[2], a[3] + b[3])

VNeg(a) == Vec3(-a[1], -a[2], -a[3])

VScale(a, s) == Vec3(Mul(a[1], s), Mul(a[2], s), Mul(a[3], s))

VWithY(a, y) == Vec3(a[1], y, a[3])

VCross(a, b) ==
    Vec3(Mul(a[2], b[3]) - Mul(a[3], b[2]),
         Mul(a[3], b[1]) - Mul(a[1], b[3]),
         Mul(a[1], b[2]) - Mul(a[2], b[1]))

VLength(a) == Isqrt(a[1] * a[1] + a[2] * a[2] + a[3] * a[3])

\* Vec3::normalize_or_zero: the zero vector when the length has no
\* finite positive reciprocal
normalize_or_zero(a) ==
    With(VLength(a), LAMBDA len :
        IF len > 0
        THEN Vec3(TDiv(a[1] * Unit, len), TDiv(a[2] * Unit, len),
                  TDiv(a[3] * Unit, len))
        ELSE VZero)

\* the sum of the directions of the entries of mapping whose key is held
RECURSIVE SumHeld(_, _, _)
SumHeld(mapping, key_down, i) ==
    IF i > Len(mapping) THEN VZero
    ELSE IF mapping[i][1] \in key_down
         THEN VAdd(mapping[i][2], SumHeld(mapping, key_down, i + 1))
         ELSE SumHeld(mapping, key_down, i + 1)

----------------------------------------------------------------------------
(* Camera, src/src/renderer/camera.rs *)

Keys == {"KeyW", "KeyS", "KeyD", "KeyA", "Space", "ShiftLeft", "ControlLeft"}

\* Camera { .. } as App::new builds it
InitialCamera ==
    [position |-> Vec3(0, 0, 2 * Unit),
     yaw |-> 0,
     pitch |-> 0,
     fov |-> 7854,
     aspect_ratio |-> F32Zero,
     movement_sensitivity |-> 2 * Unit,
     mouse_sensitivity |-> 50]

forward(cam) ==
    With(Cos(cam.pitch), LAMBDA pitch_cos :
        Vec3(Mul(Sin(cam.yaw), pitch_cos),
             Sin(cam.pitch),
             Mul(-Cos(cam.yaw), pitch_cos)))

\* The matrix is kept as the values it is computed from: the projection
\* from (fov, aspect_ratio, near) and the view from (position, forward).
view_projection(cam) ==
    [projection |-> <<cam.fov, cam.aspect_ratio, Unit \div 10>>,
     view |-> <<cam.position, forward(cam)>>]

\* direction_mapping with the sign of the KeyS entry lost
direction_mapping_unsigned(forward_xz, right_xz, up) ==
    << <<"KeyW", forward_xz>>,
       <<"KeyS", forward_xz>>,
       <<"KeyD", right_xz>>,
       <<"KeyA", VNeg(right_xz)>>,
       <<"Space", up>>,
       <<"ShiftLeft", VNeg(up)>> >>

direction_mapping(forward_xz, right_xz, up) ==
    << <<"KeyW", forward_xz>>,
       <<"KeyS", VNeg(forward_xz)>>,
       <<"KeyD", right_xz>>,
       <<"KeyA", VNeg(right_xz)>>,
       <<"Space", up>>,
       <<"ShiftLeft", VNeg(up)>> >>

\* key_down is the set of keys the predicate answers true for
update_position(cam, key_down, dt) ==
    LET up == VY
        speed_boost == IF "ControlLeft" \in key_down
                       THEN (3 * Unit) \div 2 ELSE Unit
    IN  With(VWithY(forward(cam), 0), LAMBDA forward_xz :
        With(direction_mapping(forward_xz, VCross(forward_xz, up), up),
             LAMBDA mapping :
        With(normalize_or_zero(SumHeld(mapping, key_down, 1)),
             LAMBDA delta_position :
            [cam EXCEPT !.position =
                VAdd(@, VScale(VScale(VScale(delta_position, dt),
                                      cam.movement_sensitivity),
                               speed_boost))])))

update_orientation(cam, delta) ==
    LET dx == delta[1]
        dy == delta[2]
        pitch == cam.pitch - dy * cam.mouse_sensitivity
        yaw == cam.yaw + dx * cam.mouse_sensitivity
    IN  [cam EXCEPT !.pitch = Clamp(pitch, -FRAC_PI_2, FRAC_PI_2),
                    !.yaw = yaw]

Camera_resize(cam, size) ==
    [cam EXCEPT !.aspect_ratio = F32Div(size[1], size[2])]

----------------------------------------------------------------------------
(* Renderer, src/src/renderer/mod.rs *)

\* One external call: its name and two integer arguments
Call(op, a, b) == <<op, a, b>>

Max(a, b) == IF a >= b THEN a ELSE b

\* The contents of a freshly created (zero-initialised) camera buffer
ZeroMatrix == [projection |-> <<0, F32Zero, 0>>, view |-> <<VZero, VZero>>]

\* A surface that was never configured
Unconfigured == [width |-> 0, height |-> 0, format |-> "none"]

\* The operations below act on a context c: the Renderer, the calls made so
\* far by the running handler, the commands recorded in the handler's
\* command encoder, and whether the handler panicked.
Log(c, op, a, b) == [c EXCEPT !.calls = Append(@, Call(op, a, b))]

\* a command recorded through the CommandEncoder / a RenderPass
Record(c, op, a, b) ==
    [c EXCEPT !.calls = Append(@, Call(op, a, b)),
              !.encoder = Append(@, Call(op, a, b))]

get_surface_config(win) ==
    [width |-> Max(win.inner_size[1], 1),
     height |-> Max(win.inner_size[2], 1),
     format |-> "Bgra8Unorm"]

\* Surface::configure
Surface_configure(c, config) ==
    [Log(c, "surface.configure", config.width, config.height)
        EXCEPT !.renderer.surface = config]

\* Pipelines::new: the triangle pipeline with the layout it is created with
Pipelines_new ==
    [triangle_pipeline |->
        [layout |-> [bind_group_layouts |-> <<>>,
                     push_constant_ranges |-> <<>>]]]

\* Device::create_bind_group for the camera buffer: the layout it names and
\* the resources of its entries, by binding
create_camera_bind_group ==
    [layout |-> "camera_bind_group_layout", entries |-> <<"camera_buffer">>]

Renderer_new(win) ==
    LET surface_config == get_surface_config(win)
        c == [renderer |-> [surface_config |-> surface_config,
                            surface |-> Unconfigured,
                            pipelines |-> Pipelines_new,
                            camera_bind_group |-> create_camera_bind_group,
                            ui_textures |-> {},
                            camera_buffer |-> ZeroMatrix,
                            staged |-> <<>>,
                            drawn |-> ZeroMatrix],
              calls |-> <<>>,
              encoder |-> <<>>,
              panicked |-> FALSE]
    IN  Surface_configure(c, surface_config)

\* Renderer_resize reconfiguring the surface before it stores the new size
Renderer_resize_configure_first(c, size) ==
    LET c1 == Surface_configure(c, c.renderer.surface_config)
    IN  [c1 EXCEPT !.renderer.surface_config.width = size[1],
                   !.renderer.surface_config.height = size[2]]

\* Renderer_resize storing the new size without reconfiguring the surface
Renderer_resize_store_only(c, size) ==
    [c EXCEPT !.renderer.surface_config.width = size[1],
              !.renderer.surface_config.height = size[2]]

Renderer_resize(c, size) ==
    LET c1 == [c EXCEPT !.renderer.surface_config.width = size[1],
                        !.renderer.surface_config.height = size[2]]
    IN  Surface_configure(c1, c1.renderer.surface_config)

\* Queue::write_buffer: the write is staged and lands in the buffer at the
\* start of the next submission
Queue_write_buffer(c, data) ==
    [Log(c, "queue.write_buffer", 0, 0)
        EXCEPT !.renderer.staged = Append(@, data)]

\* Queue::submit: staged writes are applied, then the command buffers run in
\* order; a draw of the world pass reads the camera buffer
Queue_submit(c, buffers) ==
    LET r == c.renderer
        buffer == IF r.staged = <<>> THEN r.camera_buffer
                  ELSE r.staged[Len(r.staged)]
        draws == \E i \in 1..Len(buffers) :
                    \E j \in 1..Len(buffers[i]) : buffers[i][j][1] = "pass.draw"
    IN  [Log(c, "queue.submit", Len(buffers), 0)
            EXCEPT !.renderer.camera_buffer = buffer,
                   !.renderer.staged = <<>>,
                   !.renderer.drawn = IF draws THEN buffer ELSE @,
                   !.encoder = <<>>]

RECURSIVE update_textures(_, _)
update_textures(c, set) ==
    IF set = <<>> THEN c
    ELSE update_textures(
            [Log(c, "ui_renderer.update_texture", Head(set), 0)
                EXCEPT !.renderer.ui_textures = @ \cup {Head(set)}],
            Tail(set))

RECURSIVE free_textures(_, _)
free_textures(c, free) ==
    IF free = <<>> THEN c
    ELSE free_textures(
            [Log(c, "ui_renderer.free_texture", Head(free), 0)
                EXCEPT !.renderer.ui_textures = @ \ {Head(free)}],
            Tail(free))

\* render_ui freeing the textures before the UI pass is recorded
render_ui_free_first(c, ui) ==
    LET c1 == Log(c, "context.tessellate", 0, 0)
        c2 == update_textures(c1, ui.set)
        c3 == free_textures(c2, ui.free)
        c4 == Log(c3, "ui_renderer.update_buffers", 0, 0)
        c5 == Record(c4, "encoder.begin_render_pass", 0, 0)
        c6 == Record(c5, "ui_renderer.render", 0, 0)
    IN  Record(c6, "pass.drop", 0, 0)

\* render_ui with a UI pass that clears its target
render_ui_clearing(c, ui) ==
    LET c1 == Log(c, "context.tessellate", 0, 0)
        c2 == update_textures(c1, ui.set)
        c3 == Log(c2, "ui_renderer.update_buffers", 0, 0)
        c4 == Record(c3, "encoder.begin_render_pass", 1, 0)
        c5 == Record(c4, "ui_renderer.render", 0, 0)
        c6 == Record(c5, "pass.drop", 0, 0)
    IN  free_textures(c6, ui.free)

\* ui is egui::FullOutput: textures_delta.set and textures_delta.free as
\* sequences of texture ids
render_ui(c, ui) ==
    LET c1 == Log(c, "context.tessellate", 0, 0)
        c2 == update_textures(c1, ui.set)
        c3 == Log(c2, "ui_renderer.update_buffers", 0, 0)
        c4 == Record(c3, "encoder.begin_render_pass", 0, 0)
        c5 == Record(c4, "ui_renderer.render", 0, 0)
        c6 == Record(c5, "pass.drop", 0, 0)
    IN  free_textures(c6, ui.free)

\* Renderer_render writing the camera buffer after the submission
Renderer_render_late_write(c, cam, ui, pre_present, acquire) ==
    IF acquire # "Ok"
    THEN [Log(c, "surface.get_current_texture", 0, 0)
            EXCEPT !.panicked = TRUE]
    ELSE
    LET c1 == Log(c, "surface.get_current_texture", 1, 0)
        c3 == Record(c1, "encoder.begin_render_pass", 1, 0)
        c4 == Record(c3, "pass.set_bind_group", 0, 0)
        c5 == Record(c4, "pass.set_pipeline", 0, 0)
        c6 == Record(c5, "pass.draw", 3, 1)
        c7 == Record(c6, "pass.drop", 0, 0)
        c8 == render_ui(c7, ui)
        c9 == With(c8, LAMBDA v : Queue_submit(v, <<v.encoder>>))
        c10 == Queue_write_buffer(c9, view_projection(cam))
        c11 == Log(c10, pre_present, 0, 0)
    IN  Log(c11, "output.present", 0, 0)

\* Renderer_render presenting before it calls the hook
Renderer_render_present_first(c, cam, ui, pre_present, acquire) ==
    IF acquire # "Ok"
    THEN [Log(c, "surface.get_current_texture", 0, 0)
            EXCEPT !.panicked = TRUE]
    ELSE
    LET c1 == Log(c, "surface.get_current_texture", 1, 0)
        c2 == Queue_write_buffer(c1, view_projection(cam))
        c3 == Record(c2, "encoder.begin_render_pass", 1, 0)
        c4 == Record(c3, "pass.set_bind_group", 0, 0)
        c5 == Record(c4, "pass.set_pipeline", 0, 0)
        c6 == Record(c5, "pass.draw", 3, 1)
        c7 == Record(c6, "pass.drop", 0, 0)
        c8 == render_ui(c7, ui)
        c9 == With(c8, LAMBDA v : Queue_submit(v, <<v.encoder>>))
        c10 == Log(c9, "output.present", 0, 0)
    IN  Log(c10, pre_present, 0, 0)

\* acquire is the outcome of Surface::get_current_texture; pre_present is
\* the call the hook makes
Renderer_render(c, cam, ui, pre_present, acquire) ==
    IF acquire # "Ok"
    THEN [Log(c, "surface.get_current_texture", 0, 0)
            EXCEPT !.panicked = TRUE]
    ELSE
    LET c1 == Log(c, "surface.get_current_texture", 1, 0)
        c2 == Queue_write_buffer(c1, view_projection(cam))
        c3 == Record(c2, "encoder.begin_render_pass", 1, 0)
        c4 == Record(c3, "pass.set_bind_group", 0, 0)
        c5 == Record(c4, "pass.set_pipeline", 0, 0)
        c6 == Record(c5, "pass.draw", 3, 1)
        c7 == Record(c6, "pass.drop", 0, 0)
        c8 == render_ui(c7, ui)
        c9 == With(c8, LAMBDA v : Queue_submit(v, <<v.encoder>>))
        c10 == Log(c9, pre_present, 0, 0)
    IN  Log(c10, "output.present", 0, 0)

----------------------------------------------------------------------------
(* InputState and FrameTimer, crate::input and crate::timer *)

InputState_new == [focused |-> FALSE, keys_held |-> {}, mouse_delta |-> <<0, 0>>]

InputState_window_event(inp, ev) ==
    CASE ev.kind = "Focused" -> [inp EXCEPT !.focused = ev.flag]
      [] ev.kind = "KeyboardInput" ->
            [inp EXCEPT !.keys_held = IF ev.flag THEN @ \cup {ev.key}
                                      ELSE @ \ {ev.key}]
      [] OTHER -> inp

InputState_device_event(inp, ev) ==
    IF ev.kind = "MouseMotion" THEN [inp EXCEPT !.mouse_delta = ev.delta]
    ELSE inp

FrameTimer_new == [dt |-> 0]

FrameTimer_tick(t, elapsed) == [t EXCEPT !.dt = elapsed]

----------------------------------------------------------------------------
(* App, src/src/application.rs.  An App operation acts on a context a: the
   fields of the App together with the calls, encoder and panicked fields of
   a Renderer context. *)

App_new(win) ==
    LET c == Renderer_new(win)
    IN  [window |-> win,
         renderer |-> c.renderer,
         camera |-> InitialCamera,
         input |-> InputState_new,
         timer |-> FrameTimer_new,
         calls |-> c.calls,
         encoder |-> <<>>,
         panicked |-> FALSE,
         exited |-> FALSE]

\* App_resize forwarding the size to the Renderer only
App_resize_renderer_only(a, size) == Renderer_resize(a, size)

App_resize(a, size) ==
    LET a1 == Renderer_resize(a, size)
    IN  [a1 EXCEPT !.camera = Camera_resize(@, size)]

\* App_update moving the camera whether or not the window has the focus
App_update_unfocused_moves(a, elapsed, ui, acquire) ==
    LET a1 == [Log(a, "timer.tick", 0, 0)
                 EXCEPT !.timer = FrameTimer_tick(@, elapsed)]
        a2 == With(a1, LAMBDA v :
                  [v EXCEPT !.camera =
                      update_position(@, v.input.keys_held, v.timer.dt)])
        a3 == With(a2, LAMBDA v :
                  Renderer_render(v, v.camera, ui,
                                  "window.pre_present_notify", acquire))
    IN  With(a3, LAMBDA v :
            IF v.panicked THEN v ELSE Log(v, "window.request_redraw", 0, 0))

\* elapsed is the time the timer measures, acquire the outcome of the surface
\* acquisition.  The call at application.rs:98 passes the camera and the hook
\* only; ui stands for the egui::FullOutput Renderer::render takes.
App_update(a, elapsed, ui, acquire) ==
    LET a1 == [Log(a, "timer.tick", 0, 0)
                 EXCEPT !.timer = FrameTimer_tick(@, elapsed)]
        a2 == With(a1, LAMBDA v :
                  IF v.input.focused
                  THEN [v EXCEPT !.camera =
                            update_position(@, v.input.keys_held, v.timer.dt)]
                  ELSE v)
        a3 == With(a2, LAMBDA v :
                  Renderer_render(v, v.camera, ui,
                                  "window.pre_present_notify", acquire))
    IN  With(a3, LAMBDA v :
            IF v.panicked THEN v ELSE Log(v, "window.request_redraw", 0, 0))

App_window_event(a, ev, elapsed, ui, acquire) ==
    LET a1 == [a EXCEPT !.input = InputState_window_event(@, ev)]
    IN  CASE ev.kind = "Resized" -> App_resize(a1, ev.size)
          [] ev.kind = "CloseRequested" ->
                [Log(a1, "event_loop.exit", 0, 0) EXCEPT !.exited = TRUE]
          [] ev.kind = "RedrawRequested" -> App_update(a1, elapsed, ui, acquire)
          [] OTHER -> a1

App_device_event(a, ev) ==
    LET a1 == [a EXCEPT !.input = InputState_device_event(@, ev)]
    IN  With(a1, LAMBDA v :
            IF v.input.focused
            THEN [v EXCEPT !.camera = update_orientation(@, v.input.mouse_delta)]
            ELSE v)

----------------------------------------------------------------------------
(* Inputs *)

NoSize == <<-1, -1>>

Sizes == (0..MaxDim) \X (0..MaxDim)

TexIds == 1..MaxTex

\* the ids from..to in ascending order
TexRange(from, to) == [i \in 1..(to - from + 1) |-> from + i - 1]

\* egui::FullOutput values: the textures added are the ids 1..k, the textures
\* freed the ids j..MaxTex
UiOutputs ==
    {[set |-> TexRange(1, k), free |-> TexRange(j, MaxTex)] :
        k \in 0..MaxTex, j \in 1..(MaxTex + 1)}

\* Ok, or a wgpu::SurfaceError
AcquireResults == {"Ok", "Outdated"}

\* elapsed frame times: 16 ms and 0.5 s
Dts == {160, Unit \div 2}

HeldSets ==
    {{}, {"ControlLeft"}, {"KeyW", "KeyS"}, {"KeyD", "KeyA", "ControlLeft"},
     {"Space", "ShiftLeft"}, Keys, Keys \ {"ControlLeft"},
     {"KeyW"}, {"KeyW", "KeyD", "ControlLeft"}, {"KeyW", "KeyS", "Space"},
     {"KeyA", "ShiftLeft"}}

MouseDeltas == {<<0, 0>>, <<400, -200>>, <<-400, 400>>}

\* cameras handed to Renderer::render on its own
RenderCameras ==
    {InitialCamera,
     update_orientation(Camera_resize(InitialCamera, <<1, 2>>), <<400, -200>>)}

Ev(kind, size, key, flag, delta) ==
    [kind |-> kind, size |-> size, key |-> key, flag |-> flag, delta |-> delta]

\* sizes a created window starts with, and sizes it is resized to
InitialSizes == {<<1, 1>>}

WindowSizes == {<<0, 1>>, <<1, 0>>, <<2, 1>>}

AppKeys == {"KeyW", "ControlLeft"}

WindowEvents ==
    {Ev("Resized", s, "", FALSE, <<0, 0>>) : s \in WindowSizes}
    \cup {Ev("CloseRequested", NoSize, "", FALSE, <<0, 0>>),
          Ev("RedrawRequested", NoSize, "", FALSE, <<0, 0>>)}
    \cup {Ev("Focused", NoSize, "", b, <<0, 0>>) : b \in BOOLEAN}
    \cup {Ev("KeyboardInput", NoSize, k, b, <<0, 0>>) :
            k \in AppKeys, b \in BOOLEAN}

DeviceEvents ==
    {Ev("MouseMotion", NoSize, "", FALSE, d) : d \in {<<400, -200>>, <<0, 400>>}}
    \cup {Ev("Button", NoSize, "", FALSE, <<0, 0>>)}

AppUiOutputs == {[set |-> <<1>>, free |-> <<>>], [set |-> <<>>, free |-> <<1>>]}

----------------------------------------------------------------------------
(* State *)

NoUi == [set |-> <<>>, free |-> <<>>]

NoWindow == [created |-> FALSE, inner_size |-> <<0, 0>>]

NoRenderer ==
    [surface_config |-> Unconfigured, surface |-> Unconfigured,
     pipelines |-> Pipelines_new, camera_bind_group |-> create_camera_bind_group,
     ui_textures |-> {}, camera_buffer |-> ZeroMatrix, staged |-> <<>>,
     drawn |-> ZeroMatrix]

Running == ~panicked /\ ~exited

\* The App of the handler as the context of an App operation
AppCtx ==
    [window |-> window, renderer |-> renderer, camera |-> camera,
     input |-> input, timer |-> timer, calls |-> <<>>, encoder |-> <<>>,
     panicked |-> FALSE, exited |-> FALSE]

Store(a) ==
    /\ window' = a.window
    /\ renderer' = a.renderer
    /\ camera' = a.camera
    /\ input' = a.input
    /\ timer' = a.timer
    /\ calls' = a.calls
    /\ panicked' = a.panicked
    /\ exited' = a.exited

\* The record of an operation: its inputs (cam: the camera it was given or
\* started from) and the size of the last resize of the current App
Hist(op, size, held, dt, cam, ui, last_resize) ==
    [op |-> op, size |-> size,
     again |-> (op = "resize" /\ hist.op = "resize" /\ hist.size = size),
     held |-> held, dt |-> dt,
     cam |-> cam, ui |-> ui,
     last_resize |-> last_resize]

InitHist ==
    [op |-> "init", size |-> NoSize, again |-> FALSE, held |-> {}, dt |-> 0,
     cam |-> InitialCamera, ui |-> NoUi, last_resize |-> NoSize]

----------------------------------------------------------------------------
(* The event loop driving the AppHandler *)

Init ==
    /\ platform \in {"native", "web"}
    /\ proxy = (platform = "web")
    /\ pending = 0
    /\ app = "None"
    /\ window = NoWindow
    /\ renderer = NoRenderer
    /\ camera = InitialCamera
    /\ input = InputState_new
    /\ timer = FrameTimer_new
    /\ exited = FALSE
    /\ panicked = FALSE
    /\ calls = <<>>
    /\ hist = InitHist
    /\ steps = 0

AppHandler_resumed ==
    /\ Running
    /\ steps < MaxEvents
    /\ \E size \in InitialSizes :
          LET win == [created |-> TRUE, inner_size |-> size]
          IN  IF platform = "native"
              THEN /\ \E a \in {App_new(win)} : Store(a)
                   /\ app' = "Some"
                   /\ UNCHANGED <<proxy, pending>>
              ELSE /\ window' = win
                   /\ calls' = <<>>
                   /\ panicked' = ~proxy
                   /\ proxy' = FALSE
                   /\ pending' = IF proxy THEN pending + 1 ELSE pending
                   /\ UNCHANGED <<app, renderer, camera, input, timer, exited>>
    /\ hist' = Hist("resumed", NoSize, {}, 0, camera, NoUi,
                    IF platform = "native" THEN NoSize ELSE hist.last_resize)
    /\ steps' = steps + 1
    /\ UNCHANGED platform

AppHandler_user_event ==
    /\ Running
    /\ steps < MaxEvents
    /\ pending > 0
    /\ \E a \in {App_new(window)} :
          \E b \in {App_resize(a, a.window.inner_size)} : Store(b)
    /\ app' = "Some"
    /\ pending' = pending - 1
    /\ hist' = Hist("user_event", window.inner_size, {}, 0, camera, NoUi,
                    window.inner_size)
    /\ steps' = steps + 1
    /\ UNCHANGED <<platform, proxy>>

\* AppHandler_window_event handing the event to the App without testing
\* that the handler holds one
AppHandler_window_event_unguarded ==
    /\ Running
    /\ steps < MaxEvents
    /\ window.created
    /\ \E ev \in WindowEvents, elapsed \in Dts, ui \in AppUiOutputs,
          acquire \in AcquireResults :
          LET win == IF ev.kind = "Resized"
                     THEN [window EXCEPT !.inner_size = ev.size] ELSE window
          IN  /\ \E a \in {App_window_event(
                                [AppCtx EXCEPT !.window = win],
                                ev, elapsed, ui, acquire)} : Store(a)
              /\ hist' = Hist(ev.kind, ev.size, input.keys_held, elapsed, camera,
                              IF ev.kind = "RedrawRequested" THEN ui ELSE NoUi,
                              IF app = "Some" /\ ev.kind = "Resized"
                              THEN ev.size ELSE hist.last_resize)
    /\ steps' = steps + 1
    /\ UNCHANGED <<platform, proxy, pending, app>>

AppHandler_window_event ==
    /\ Running
    /\ steps < MaxEvents
    /\ window.created
    /\ \E ev \in WindowEvents, elapsed \in Dts, ui \in AppUiOutputs,
          acquire \in AcquireResults :
          \* a Resized event reports the size the window now has
          LET win == IF ev.kind = "Resized"
                     THEN [window EXCEPT !.inner_size = ev.size] ELSE window
          IN  /\ IF app = "Some"
                 THEN \E a \in {App_window_event(
                                    [AppCtx EXCEPT !.window = win],
                                    ev, elapsed, ui, acquire)} : Store(a)
                 ELSE /\ window' = win
                      /\ calls' = <<>>
                      /\ UNCHANGED <<renderer, camera, input, timer, exited,
                                     panicked>>
              /\ hist' = Hist(ev.kind, ev.size, input.keys_held, elapsed, camera,
                              IF ev.kind = "RedrawRequested" THEN ui ELSE NoUi,
                              IF app = "Some" /\ ev.kind = "Resized"
                              THEN ev.size ELSE hist.last_resize)
    /\ steps' = steps + 1
    /\ UNCHANGED <<platform, proxy, pending, app>>

AppHandler_device_event ==
    /\ Running
    /\ steps < MaxEvents
    /\ \E ev \in DeviceEvents :
          /\ IF app = "Some"
             THEN \E a \in {App_device_event(AppCtx, ev)} : Store(a)
             ELSE /\ calls' = <<>>
                  /\ UNCHANGED <<window, renderer, camera, input, timer,
                                 exited, panicked>>
          /\ hist' = Hist(ev.kind, ev.delta, input.keys_held, 0, camera, NoUi,
                          hist.last_resize)
    /\ steps' = steps + 1
    /\ UNCHANGED <<platform, proxy, pending, app>>

Next ==
    \/ AppHandler_resumed
    \/ AppHandler_user_event
    \/ AppHandler_window_event
    \/ AppHandler_device_event

Spec == Init /\ [][Next]_vars

----------------------------------------------------------------------------
(* A Renderer on its own: Renderer::new, then resize and render calls *)

RendererInit ==
    /\ platform = "native"
    /\ proxy = FALSE
    /\ pending = 0
    /\ app = "Some"
    /\ \E size \in Sizes :
          LET c == Renderer_new([created |-> TRUE, inner_size |-> size])
          IN  /\ window = [created |-> TRUE, inner_size |-> size]
              /\ renderer = c.renderer
              /\ calls = c.calls
    /\ camera = InitialCamera
    /\ input = InputState_new
    /\ timer = FrameTimer_new
    /\ exited = FALSE
    /\ panicked = FALSE
    /\ hist = [InitHist EXCEPT !.op = "new"]
    /\ steps = 0

RendererCtx ==
    [renderer |-> renderer, calls |-> <<>>, encoder |-> <<>>,
     panicked |-> FALSE]

Renderer_resize_call ==
    /\ Running
    /\ \E size \in Sizes :
          \E c \in {Renderer_resize(RendererCtx, size)} :
              /\ renderer' = c.renderer
              /\ calls' = c.calls
              /\ panicked' = c.panicked
              /\ hist' = Hist("resize", size, {}, 0, InitialCamera, NoUi, NoSize)
    /\ UNCHANGED <<platform, proxy, pending, app, window, camera, input,
                   timer, exited, steps>>

Renderer_render_call ==
    /\ Running
    /\ \E cam \in RenderCameras, ui \in UiOutputs, acquire \in AcquireResults :
          \E c \in {Renderer_render(RendererCtx, cam, ui,
                                     "window.pre_present_notify", acquire)} :
              /\ renderer' = c.renderer
              /\ calls' = c.calls
              /\ panicked' = c.panicked
              /\ hist' = Hist("render", NoSize, {}, 0, cam, ui, NoSize)
    /\ UNCHANGED <<platform, proxy, pending, app, window, camera, input,
                   timer, exited, steps>>

RendererNext == Renderer_resize_call \/ Renderer_render_call

SpecRenderer == RendererInit /\ [][RendererNext]_vars

----------------------------------------------------------------------------
(* A Camera on its own: the camera of App::new, then any of its operations *)

CameraInit ==
    /\ platform = "native"
    /\ proxy = FALSE
    /\ pending = 0
    /\ app = "None"
    /\ window = NoWindow
    /\ renderer = NoRenderer
    /\ camera = InitialCamera
    /\ input = InputState_new
    /\ timer = FrameTimer_new
    /\ exited = FALSE
    /\ panicked = FALSE
    /\ calls = <<>>
    /\ hist = [InitHist EXCEPT !.op = "new"]
    /\ steps = 0

Camera_update_position_call ==
    /\ steps < MaxCamOps
    /\ \E held \in HeldSets, dt \in Dts :
          /\ camera' = update_position(camera, held, dt)
          /\ hist' = Hist("update_position", NoSize, held, dt, camera, NoUi,
                          hist.last_resize)
    /\ steps' = steps + 1
    /\ UNCHANGED <<platform, proxy, pending, app, window, renderer, input,
                   timer, exited, panicked, calls>>

Camera_update_orientation_call ==
    /\ steps < MaxCamOps
    /\ \E delta \in MouseDeltas :
          /\ camera' = update_orientation(camera, delta)
          /\ hist' = Hist("update_orientation", delta, {}, 0, camera, NoUi,
                          hist.last_resize)
    /\ steps' = steps + 1
    /\ UNCHANGED <<platform, proxy, pending, app, window, renderer, input,
                   timer, exited, panicked, calls>>

Camera_resize_call ==
    /\ steps < MaxCamOps
    /\ \E size \in WindowSizes :
          /\ camera' = Camera_resize(camera, size)
          /\ hist' = Hist("camera_resize", size, {}, 0, camera, NoUi, size)
    /\ steps' = steps + 1
    /\ UNCHANGED <<platform, proxy, pending, app, window, renderer, input,
                   timer, exited, panicked, calls>>

CameraNext ==
    \/ Camera_update_position_call
    \/ Camera_update_orientation_call
    \/ Camera_resize_call

SpecCamera == CameraInit /\ [][CameraNext]_vars

----------------------------------------------------------------------------
(* Properties *)

\* positions in calls of the calls named op
Positions(op) == {i \in 1..Len(calls) : calls[i][1] = op}

Count(op) == Cardinality(Positions(op))

\* the first arguments of the calls named op, in call order
Args(op) ==
    LET sel == SelectSeq(calls, LAMBDA k : k[1] = op)
    IN  [i \in 1..Len(sel) |-> sel[i][2]]

\* the last handler ran Renderer::render and acquired its image
RenderCompleted ==
    /\ ~panicked
    /\ \E i \in 1..Len(calls) :
          calls[i] = Call("surface.get_current_texture", 1, 0)

\* the last handler ran Renderer::render, whatever became of it
RenderStarted == Count("surface.get_current_texture") > 0

\* C1: after Renderer::new and any resize calls the stored surface
\* configuration is at least 1x1, and the live surface is never configured
\* with a width or height of 0.
C1_SurfaceAtLeastOne ==
    app = "Some" =>
        /\ renderer.surface_config.width >= 1
        /\ renderer.surface_config.height >= 1
        /\ \A i \in Positions("surface.configure") :
              calls[i][2] >= 1 /\ calls[i][3] >= 1

\* C2: in a render call every texture addition of the UI output is applied
\* before the UI draw is issued, and every texture of the removal set is
\* freed after the UI pass has ended; no addition follows the draw and no
\* free precedes it.
C2_AddDrawFree ==
    RenderCompleted =>
        /\ Args("ui_renderer.update_texture") = hist.ui.set
        /\ Args("ui_renderer.free_texture") = hist.ui.free
        /\ Count("ui_renderer.render") = 1
        /\ \A d \in Positions("ui_renderer.render") :
              /\ \A x \in Positions("ui_renderer.update_texture") : x < d
              /\ calls[d + 1][1] = "pass.drop"
              /\ \A f \in Positions("ui_renderer.free_texture") : d + 1 < f

C2_Witness ==
    /\ RenderCompleted
    /\ hist.op = "render"
    /\ Len(hist.ui.set) = MaxTex
    /\ Len(hist.ui.free) = MaxTex

\* C3: a render call writes the camera's view_projection to the camera
\* buffer exactly once, before the submission that contains the world draw,
\* and the draw reads the matrix of the camera given to this call.
C3_CameraWriteBeforeDraw ==
    RenderCompleted =>
        /\ Count("queue.write_buffer") = 1
        /\ Count("pass.draw") = 1
        /\ \A w \in Positions("queue.write_buffer") :
              \A q \in Positions("queue.submit") : w < q
        /\ renderer.drawn = view_projection(hist.cam)

C3_Witness ==
    /\ RenderCompleted
    /\ hist.op = "render"
    /\ hist.cam # InitialCamera
    /\ renderer.camera_buffer = view_projection(hist.cam)

\* C4: a render call that completes submits the recorded commands as exactly
\* one batch, then calls the pre-present hook exactly once, then presents
\* exactly once, with nothing between the hook and the present.
C4_SubmitHookPresent ==
    RenderCompleted =>
        /\ Count("queue.submit") = 1
        /\ Count("window.pre_present_notify") = 1
        /\ Count("output.present") = 1
        /\ \A q \in Positions("queue.submit") :
              /\ calls[q][2] = 1
              /\ \A h \in Positions("window.pre_present_notify") :
                    /\ q < h
                    /\ h < Len(calls)
                    /\ calls[h + 1][1] = "output.present"

C4_Witness ==
    /\ RenderCompleted
    /\ hist.op = "RedrawRequested"
    /\ calls[Len(calls)] = Call("window.request_redraw", 0, 0)

\* C5: when the acquisition of the next image fails in render, render
\* reconfigures the surface and retries the acquisition once; only a second
\* failure is fatal.
C5_RetryOnceOnStale ==
    (RenderStarted /\ calls[1] = Call("surface.get_current_texture", 0, 0)) =>
        /\ Len(calls) >= 3
        /\ calls[2][1] = "surface.configure"
        /\ calls[3][1] = "surface.get_current_texture"
        /\ panicked => calls[3][2] = 0

\* C6: a resize with the size of the resize just before it leaves the stored
\* surface configuration and the configuration of the live surface as they
\* were.
C6_ResizeIdempotent ==
    [][(hist.op = "resize" /\ hist'.op = "resize" /\ hist'.size = hist.size)
        => /\ renderer'.surface_config = renderer.surface_config
           /\ renderer'.surface = renderer.surface]_vars

C6_Witness ==
    /\ hist.op = "resize"
    /\ hist.again
    /\ hist.size = <<0, MaxDim>>
    /\ renderer.surface = renderer.surface_config

\* C7: whenever a redraw is turned into a render, the camera of the App has
\* been resized at least once since the App was created.
C7_ResizeBeforeFirstRender ==
    (app = "Some" /\ RenderStarted) => hist.last_resize # NoSize

\* C8: once an App has been resized, its surface configuration is the size
\* of the last resize and its camera's aspect ratio is width / height of that
\* same resize.
C8_ResizeUpdatesBoth ==
    (app = "Some" /\ hist.last_resize # NoSize) =>
        /\ renderer.surface_config.width = hist.last_resize[1]
        /\ renderer.surface_config.height = hist.last_resize[2]
        /\ camera.aspect_ratio = F32Div(hist.last_resize[1], hist.last_resize[2])

C8_Witness ==
    /\ app = "Some"
    /\ hist.op = "RedrawRequested"
    /\ RenderCompleted
    /\ hist.last_resize = <<2, 1>>
    /\ renderer.drawn.projection[2] = <<2, 1>>

\* C9: pitch lies strictly inside (-pi/2, pi/2) after any sequence of
\* update_orientation calls.
C9_PitchStrictlyInside ==
    -FRAC_PI_2 < camera.pitch /\ camera.pitch < FRAC_PI_2

\* the six movement inputs held cancel in opposing pairs
NetZero(held) ==
    /\ ("KeyW" \in held) <=> ("KeyS" \in held)
    /\ ("KeyD" \in held) <=> ("KeyA" \in held)
    /\ ("Space" \in held) <=> ("ShiftLeft" \in held)

\* C10: update_position leaves position unchanged, for every dt and with or
\* without sprint, when no movement input is held or the held inputs cancel
\* in opposing pairs.
C10_ZeroNetDirection ==
    (hist.op = "update_position" /\ NetZero(hist.held)) =>
        camera.position = hist.cam.position

C10_Witness ==
    /\ hist.op = "update_position"
    /\ hist.held = {"KeyW", "KeyS"}
    /\ hist.dt = Unit \div 2
    /\ hist.cam.pitch # 0
    /\ camera.position = InitialCamera.position

\* the calls of the last handler from position i to position j
Slice(i, j) == [k \in 1..(j - i + 1) |-> calls[i + k - 1][1]]

\* C11: in a render call that completes exactly two passes are recorded, both
\* before the submission: first the world pass, which clears the target and
\* issues exactly one draw, of 3 vertices and 1 instance, then the UI pass,
\* which loads the target and holds the UI draw.
C11_WorldPassThenUiPass ==
    RenderCompleted =>
        /\ Count("encoder.begin_render_pass") = 2
        /\ Count("pass.draw") = 1
        /\ \E w, u \in Positions("encoder.begin_render_pass") :
              /\ w < u
              /\ calls[w] = Call("encoder.begin_render_pass", 1, 0)
              /\ calls[u] = Call("encoder.begin_render_pass", 0, 0)
              /\ Slice(w, w + 4) = <<"encoder.begin_render_pass",
                                     "pass.set_bind_group", "pass.set_pipeline",
                                     "pass.draw", "pass.drop">>
              /\ calls[w + 3] = Call("pass.draw", 3, 1)
              /\ Slice(u, u + 2) = <<"encoder.begin_render_pass",
                                     "ui_renderer.render", "pass.drop">>
              /\ \A q \in Positions("queue.submit") : u + 2 < q

C11_Witness ==
    /\ RenderCompleted
    /\ hist.op = "render"
    /\ hist.ui.set = <<1>>
    /\ hist.ui.free = <<>>
    /\ Count("encoder.begin_render_pass") = 2

\* the last event was a RedrawRequested handled by an App
RedrawHandled == app = "Some" /\ hist.op = "RedrawRequested"

\* C12: every RedrawRequested handled by an App ticks the timer first, moves
\* the camera with the time just measured when the window has the focus,
\* then renders that camera exactly once, and last requests another redraw
\* exactly once.
C12_FrameSequence ==
    RedrawHandled =>
        /\ Count("timer.tick") = 1
        /\ calls[1] = Call("timer.tick", 0, 0)
        /\ timer.dt = hist.dt
        /\ camera = IF input.focused
                    THEN update_position(hist.cam, hist.held, hist.dt)
                    ELSE hist.cam
        /\ Count("surface.get_current_texture") = 1
        /\ Count("output.present") = 1
        /\ renderer.drawn = view_projection(camera)
        /\ Count("window.request_redraw") = 1
        /\ calls[Len(calls)] = Call("window.request_redraw", 0, 0)
        /\ calls[Len(calls) - 1] = Call("output.present", 0, 0)

\* C13: a RedrawRequested handled while the window does not have the focus
\* leaves the camera as it was, whatever keys are held and whatever the
\* elapsed time, and still runs Renderer::render, which draws that camera.
C13_UnfocusedRedrawKeepsPosition ==
    (RedrawHandled /\ ~input.focused) =>
        /\ camera.position = hist.cam.position
        /\ Count("surface.get_current_texture") = 1
        /\ RenderCompleted => renderer.drawn = view_projection(hist.cam)

C13_Witness ==
    /\ RedrawHandled
    /\ ~input.focused
    /\ hist.held = {"KeyW"}
    /\ hist.dt = Unit \div 2
    /\ RenderCompleted
    /\ Count("pass.draw") = 1

\* the step is the handling of a window event or of a device event
EventStep == hist'.op \notin {"resumed", "user_event"}

C15_CameraResizeHeightPositive ==
    app = "Some" =>
        /\ hist.last_resize # NoSize => hist.last_resize[2] > 0
        /\ camera.aspect_ratio[2] # 0

\* C16: a render call leaves the stored surface configuration and the
\* configuration of the live surface as they were, and when it begins the
\* live surface has the stored configuration.
C16_ConfigChangedOnlyByResize ==
    [][hist'.op = "render"
        => /\ renderer.surface = renderer.surface_config
           /\ renderer'.surface_config = renderer.surface_config
           /\ renderer'.surface = renderer.surface]_vars

C16_Witness ==
    /\ hist.op = "render"
    /\ RenderCompleted
    /\ window.inner_size = <<1, 1>>
    /\ renderer.surface_config.width = MaxDim
    /\ renderer.surface_config.height = MaxDim
    /\ renderer.surface = renderer.surface_config

\* C17: once the handler holds an App, no lifecycle event (resumed,
\* user_event) constructs another one: the handler keeps its App, nothing is
\* configured or created, and the Renderer, the Camera, the input state and
\* the timer stay as they are.
C17_AppCreatedOnce ==
    [][(app = "Some" /\ hist'.op \in {"resumed", "user_event"})
        => /\ app' = "Some"
           /\ calls' = <<>>
           /\ renderer' = renderer
           /\ camera' = camera
           /\ input' = input
           /\ timer' = timer]_vars

\* C18: whenever a render has recorded its world pass, the layout the
\* triangle pipeline was created with declares, at slot 0, the layout of the
\* camera bind group, and every slot the pass binds the camera bind group at
\* is a slot of that layout.
C18_PipelineLayoutHasCameraGroup ==
    (app = "Some" /\ RenderCompleted) =>
        LET declared ==
                renderer.pipelines.triangle_pipeline.layout.bind_group_layouts
        IN  /\ Len(declared) >= 1
            /\ declared[1] = renderer.camera_bind_group.layout
            /\ \A i \in Positions("pass.set_bind_group") :
                  calls[i][2] + 1 <= Len(declared)

\* C19: while the handler holds no App, a window event or device event has
\* no effect: nothing is rendered or configured, the Renderer, the Camera,
\* the input state and the timer stay as they are, and the event loop is not
\* asked to exit.
C19_EventsDroppedBeforeReady ==
    [][(app = "None" /\ EventStep)
        => /\ app' = "None"
           /\ calls' = <<>>
           /\ renderer' = renderer
           /\ camera' = camera
           /\ input' = input
           /\ timer' = timer
           /\ exited' = exited
           /\ panicked' = panicked]_vars

C19_Witness ==
    /\ platform = "web"
    /\ app = "None"
    /\ pending = 1
    /\ window.created
    /\ hist.op = "CloseRequested"
    /\ ~exited
    /\ calls = <<>>

====
